---- MODULE Spec2Model ----
(***************************************************************************)
(* Model of src/script.js: the terrarium's draggable elements.             *)
(*                                                                         *)
(* Numbers.  Scales are counted in hundredths (100 is the scale 1.0, 5 is  *)
(* the wheel step 0.05), rotations and angles in whole degrees, pointer    *)
(* coordinates and offsets in whole pixels.  Arithmetic is exact; the one  *)
(* non-number JavaScript produces here, NaN (0/0 in the pinch), is the     *)
(* value NaN below, and every operator on scales propagates it the way     *)
(* JavaScript's +, *, Math.min and Math.max do.                            *)
(*                                                                         *)
(* Strings.  A style.top / style.left string is a record [n, u] (number    *)
(* and unit, u in "px", "%", "auto", ""); a style.transform string is a    *)
(* record [translate, scale, rotate] whose scale and rotate fields are     *)
(* sequences of length 0 (component absent) or 1 (the number written).     *)
(***************************************************************************)
EXTENDS Integers, Sequences, FiniteSets, TLC

\* ------------------------------------------------------------ bounds
\* Number of input events delivered in one behaviour.
MaxEvents == 3
\* Longest run of identical consecutive wheel / context-menu events that is
\* delivered without counting against MaxEvents.
MaxRepeat == 7
\* Events delivered beyond MaxEvents in the longer behaviours of SpecLong.
ExtraEvents == 1

\* ------------------------------------------------------------ elements
\* Two of the 21 ids of draggableIds, one of each prefix.
Elements == {"plant1", "animal1"}
NoElement == "null"

\* Touch identifiers (fingers) the environment can put on the screen.
Fingers == {1, 2, 3}

\* Pointer / touch coordinates the environment draws from.
Points == {<<100, 100>>, <<80, 130>>}

\* e.touches of a two-touch event: touches[0] and touches[1].
TouchPairs ==
    { <<<<100, 100>>, <<100, 100>>>>,     \* coincident points
      <<<<100, 100>>, <<200, 100>>>>,     \* distance 100, angle 0
      <<<<100, 100>>, <<150, 100>>>>,     \* distance 50,  angle 0
      <<<<100, 100>>, <<100, 200>>>> }    \* distance 100, angle 90

\* The documents the script is loaded in: the elements carry no inline
\* top/left ("unset"), or each carries one in pixels ("px").
InitialStyles == {"unset", "px"}
\* The inline pixel offset of an element styled in the document.
InlinePx == 10
\* rect.top - parentRect.top + scrollTop (and the same for left) as rendered.
RenderedOffset == 40

Keys == {"ArrowUp", "ArrowDown", "ArrowLeft", "ArrowRight", "Enter"}
\* e.deltaY of a wheel event.
DeltaYs == {-100, 0, 100}

\* ------------------------------------------------------------ numbers
NaN == -1
Infinity == 1000000

Add(a, b) == IF a = NaN \/ b = NaN THEN NaN ELSE a + b

MathMin(a, b) == IF a = NaN \/ b = NaN THEN NaN ELSE IF a < b THEN a ELSE b

MathMax(a, b) == IF a = NaN \/ b = NaN THEN NaN ELSE IF a > b THEN a ELSE b

\* JavaScript's %: the result takes the sign of the dividend.
JsMod(a, n) == IF a >= 0 THEN a % n ELSE 0 - ((0 - a) % n)

\* Math.sqrt on the perfect squares the touch pairs produce.
Sqrt(n) == CHOOSE r \in 0..200 : r * r = n

\* Math.atan2(dy, dx) * (180 / Math.PI) for axis-aligned vectors.
Atan2Deg(dy, dx) ==
    CASE dy = 0 /\ dx >= 0 -> 0
      [] dy = 0 /\ dx < 0  -> 180
      [] dx = 0 /\ dy > 0  -> 90
      [] dx = 0 /\ dy < 0  -> -90

getDistance(p1, p2) ==
    LET dx == p1[1] - p2[1]
        dy == p1[2] - p2[2]
    IN  Sqrt(dx * dx + dy * dy)

getAngle(p1, p2) ==
    LET dx == p2[1] - p1[1]
        dy == p2[2] - p1[2]
    IN  Atan2Deg(dy, dx)

\* currentDistance / touchStartDistance, then initialScale * distanceRatio.
\* x/0 is Infinity for x > 0 and NaN for x = 0.
TimesRatio(s, cur, start) ==
    IF s = NaN THEN NaN
    ELSE IF start = 0 THEN (IF cur = 0 THEN NaN ELSE Infinity)
    ELSE (s * cur) \div start

\* The product above is a whole number of hundredths.
RatioExact(s, cur, start) ==
    IF s = NaN \/ start = 0 THEN TRUE ELSE (s * cur) % start = 0

\* Math.max(0.3, Math.min(3, s))
Clamp(s) == MathMax(30, MathMin(300, s))

\* ------------------------------------------------------------ strings
Px(n) == [n |-> n, u |-> "px"]
Percent(n) == [n |-> n, u |-> "%"]
Auto == [n |-> 0, u |-> "auto"]
EmptyLength == [n |-> 0, u |-> ""]

\* parseFloat(s) || 0 on a top/left string: the leading number, whatever unit
\* follows it; NaN (and so 0) when the string has no leading number.
ParseFloatOr0(s) == IF s.u \in {"px", "%"} THEN s.n ELSE 0

EmptyTransform == [translate |-> FALSE, scale |-> <<>>, rotate |-> <<>>]
\* 'translate(-50%, -50%)'
CentreTransform == [translate |-> TRUE, scale |-> <<>>, rotate |-> <<>>]

\* transform.match(/scale\(([\d.]+)\)/): 'scale(NaN)' does not match.
scaleMatch(t) == Len(t.scale) = 1 /\ t.scale[1] # NaN
\* transform.match(/rotate\(([\d.-]+)deg\)/)
rotateMatch(t) == Len(t.rotate) = 1 /\ t.rotate[1] # NaN

IdleStatus == <<"Drag a plant or animal to see coordinates.">>
DraggingStatus(id, x, y) == <<"Dragging", id, x, y>>

VARIABLES
    selectedElement,      \* the global of line 3
    statusElement,        \* whether document.getElementById('status') exists
    statusText,           \* statusElement.textContent
    top, left, transform, \* element.style.top / .left / .transform
    propScale, propRotation,  \* the custom properties --scale / --rotation
    dragging,             \* the data-dragging attribute
    currentX, currentY,   \* closure variables of makeElementDraggable
    initialScale, initialRotation,
    scale, rotation,
    touchStartDistance, touchStartAngle,
    onpointermove, onpointerup, onwheel, oncontextmenu,  \* document.on...
    touches,              \* environment: the element each finger is on
    events,               \* number of events delivered so far
    last,                 \* history: the current run of wheel / context-menu events
    pressed               \* history: the press delivered last

engineVars == <<currentX, currentY, initialScale, initialRotation, scale,
                rotation, touchStartDistance, touchStartAngle>>
styleVars == <<top, left, transform, propScale, propRotation, dragging>>
documentVars == <<onpointermove, onpointerup, onwheel, oncontextmenu>>
vars == <<selectedElement, statusElement, statusText, styleVars, engineVars,
          documentVars, touches, events, last, pressed>>

\* ------------------------------------------------------------ history
\* last: the run of wheel or context-menu events that is being delivered: its
\* kind, target and argument, how many events it has (n) and the value it
\* started from (base: the engine's scale before a run of wheel events, its
\* rotation before a run of context-menu events).  NoEvent after any other
\* event.
NoEvent == [ev |-> "none", el |-> NoElement, arg |-> 0, n |-> 0, base |-> 0]

Repeatable == {"wheel", "contextmenu"}

Repeats(ev, el, arg) ==
    ev \in Repeatable /\ last.ev = ev /\ last.el = el /\ last.arg = arg

\* MaxEvents events of any kind are delivered; after them, the wheel or
\* context-menu event delivered last may repeat until its run is MaxRepeat long.
Deliver(ev, el, arg, base) ==
    /\ IF events < MaxEvents
       THEN events' = events + 1
       ELSE Repeats(ev, el, arg) /\ last.n < MaxRepeat /\ events' = events
    /\ last' = IF ev \notin Repeatable THEN NoEvent
               ELSE IF Repeats(ev, el, arg) THEN [last EXCEPT !.n = @ + 1]
               ELSE [ev |-> ev, el |-> el, arg |-> arg, n |-> 1, base |-> base]

\* pressed: the press delivered last: the element pressed, its style.top and
\* style.left before the press and the pointer coordinates of the press.
NoPress == [el |-> NoElement, top |-> EmptyLength, left |-> EmptyLength,
            x |-> 0, y |-> 0]

\* ------------------------------------------------------------ Init
\* draggableIds.forEach: the state each element is left in, from the inline
\* style it had.
InitialTop(style) ==
    CASE style = "unset" -> Percent(50)
      [] style = "px"    -> Px(InlinePx)

InitialTransform(style) ==
    IF style = "unset" THEN CentreTransform ELSE EmptyTransform

Loaded ==
    /\ selectedElement = NoElement
    /\ statusElement \in BOOLEAN
    /\ statusText = IdleStatus
    /\ \E style \in InitialStyles :
          /\ top = [el \in Elements |-> InitialTop(style)]
          /\ left = [el \in Elements |-> InitialTop(style)]
          /\ transform = [el \in Elements |-> InitialTransform(style)]
    /\ propScale = [el \in Elements |-> <<>>]
    /\ propRotation = [el \in Elements |-> <<>>]
    /\ dragging = [el \in Elements |-> FALSE]
    /\ currentX = [el \in Elements |-> 0]
    /\ currentY = [el \in Elements |-> 0]
    /\ initialScale = [el \in Elements |-> 100]
    /\ initialRotation = [el \in Elements |-> 0]
    /\ scale = [el \in Elements |-> 100]
    /\ rotation = [el \in Elements |-> 0]
    /\ touchStartDistance = [el \in Elements |-> 0]
    /\ touchStartAngle = [el \in Elements |-> 0]
    /\ onpointermove = NoElement
    /\ onpointerup = NoElement
    /\ onwheel = NoElement
    /\ oncontextmenu = NoElement
    /\ touches = [f \in Fingers |-> NoElement]
    /\ last = NoEvent
    /\ pressed = NoPress

Init == Loaded /\ events = 0

\* The same program with ExtraEvents more events delivered.
InitLong == Loaded /\ events = 0 - ExtraEvents

\* ------------------------------------------------------------ helpers
\* updateStatus(message)
updateStatus(message) ==
    statusText' = IF statusElement THEN message ELSE statusText

\* The template `translate(-50%, -50%) scale(${scale}) rotate(${rotation}deg)`.
ComposedTransform(s, r) ==
    [translate |-> TRUE, scale |-> <<s>>, rotate |-> <<r>>]

\* updateTransform(), with the engine's new scale s and rotation r.
updateTransform(el, s, r) ==
    /\ propScale' = [propScale EXCEPT ![el] = <<s>>]
    /\ propRotation' = [propRotation EXCEPT ![el] = <<r>>]
    /\ transform' = [transform EXCEPT ![el] = ComposedTransform(s, r)]

\* Lines 161-166: the engine's scale / rotation after the re-parse at press.
ReparsedScale(el) ==
    IF scaleMatch(transform[el]) THEN transform[el].scale[1] ELSE scale[el]

ReparsedRotation(el) ==
    IF rotateMatch(transform[el]) THEN transform[el].rotate[1] ELSE rotation[el]

\* Lines 169-174: position tracking is initialised from the rendered offset
\* when style.top is '' or 'auto'.
NeedsPositionInit(el) == top[el].u \in {"", "auto"}

\* handlePointerDown(e) of element el, e.clientX/Y = p.
handlePointerDown(el, p) ==
    /\ scale' = [scale EXCEPT ![el] = ReparsedScale(el)]
    /\ rotation' = [rotation EXCEPT ![el] = ReparsedRotation(el)]
    /\ top' = IF NeedsPositionInit(el)
              THEN [top EXCEPT ![el] = Px(RenderedOffset)] ELSE top
    /\ left' = IF NeedsPositionInit(el)
               THEN [left EXCEPT ![el] = Px(RenderedOffset)] ELSE left
    /\ currentX' = [currentX EXCEPT ![el] = p[1]]
    /\ currentY' = [currentY EXCEPT ![el] = p[2]]
    /\ dragging' = [dragging EXCEPT ![el] = TRUE]
    /\ onpointermove' = el
    /\ onpointerup' = el
    /\ onwheel' = el
    /\ oncontextmenu' = el
    /\ pressed' = [el |-> el, top |-> top[el], left |-> left[el],
                   x |-> p[1], y |-> p[2]]

\* Lines 188-189, 197-202: the new style.top / style.left of a move to p.
MovedTop(el, p) ==
    LET moveY == currentY[el] - p[2]
        currentTop == ParseFloatOr0(top[el])
    IN  Px(currentTop - moveY)

\* Mutant: the delta added instead of subtracted (the inverted convention).
MovedLeftInverted(el, p) ==
    LET moveX == currentX[el] - p[1]
        currentLeft == ParseFloatOr0(left[el])
    IN  Px(currentLeft + moveX)

MovedLeft(el, p) ==
    LET moveX == currentX[el] - p[1]
        currentLeft == ParseFloatOr0(left[el])
    IN  Px(currentLeft - moveX)

\* handlePointerMove(e) of element el, e.clientX/Y = p.
handlePointerMove(el, p) ==
    /\ currentX' = [currentX EXCEPT ![el] = p[1]]
    /\ currentY' = [currentY EXCEPT ![el] = p[2]]
    /\ updateStatus(DraggingStatus(el, p[1], p[2]))
    /\ top' = [top EXCEPT ![el] = MovedTop(el, p)]
    /\ left' = [left EXCEPT ![el] = MovedLeft(el, p)]

\* Mutant: the release leaves document.onwheel registered.
handlePointerUpKeepsWheel(el) ==
    /\ dragging' = [dragging EXCEPT ![el] = FALSE]
    /\ updateStatus(IdleStatus)
    /\ onpointermove' = NoElement
    /\ onpointerup' = NoElement
    /\ onwheel' = onwheel
    /\ oncontextmenu' = NoElement

\* handlePointerUp() of element el.
handlePointerUp(el) ==
    /\ dragging' = [dragging EXCEPT ![el] = FALSE]
    /\ updateStatus(IdleStatus)
    /\ onpointermove' = NoElement
    /\ onpointerup' = NoElement
    /\ onwheel' = NoElement
    /\ oncontextmenu' = NoElement

\* ------------------------------------------------------------ keyboard
\* Lines 40-46: scale and rotation as the keydown listener reads them.
ParsedScale(t) == IF scaleMatch(t) THEN t.scale[1] ELSE 100

ParsedRotation(t) == IF rotateMatch(t) THEN t.rotate[1] ELSE 0

\* Mutant: Arrow Up and Arrow Down step by 0.05.
KeyScaleStep5(key, s) ==
    CASE key = "ArrowUp"   -> MathMin(300, Add(s, 5))
      [] key = "ArrowDown" -> MathMax(30, Add(s, -5))
      [] OTHER             -> s

\* Lines 48-67: the switch on e.key.
KeyScale(key, s) ==
    CASE key = "ArrowUp"   -> MathMin(300, Add(s, 10))
      [] key = "ArrowDown" -> MathMax(30, Add(s, -10))
      [] OTHER             -> s

\* Mutant: Arrow Left without the + 360 before the modulo.
KeyRotationNoWrap(key, r) ==
    CASE key = "ArrowLeft"  -> JsMod(r - 15, 360)
      [] key = "ArrowRight" -> JsMod(r + 15, 360)
      [] OTHER              -> r

KeyRotation(key, r) ==
    CASE key = "ArrowLeft"  -> JsMod(r - 15 + 360, 360)
      [] key = "ArrowRight" -> JsMod(r + 15, 360)
      [] OTHER              -> r

\* Mutant: the switch without its default: return.
ArrowKeysNoDefault == Keys

\* The cases of the switch that do not return.
ArrowKeys == {"ArrowUp", "ArrowDown", "ArrowLeft", "ArrowRight"}

\* Line 69: the template `scale(${scale}) rotate(${rotation}deg)`.
KeyTransform(s, r) ==
    [translate |-> FALSE, scale |-> <<s>>, rotate |-> <<r>>]

\* document's keydown listener.
KeyDown(key) ==
    /\ Deliver("keydown", selectedElement, 0, 0)
    /\ IF selectedElement = NoElement \/ key \notin ArrowKeys
       THEN UNCHANGED transform
       ELSE LET t == transform[selectedElement]
            IN  transform' =
                  [transform EXCEPT ![selectedElement] =
                     KeyTransform(KeyScale(key, ParsedScale(t)),
                                  KeyRotation(key, ParsedRotation(t)))]
    /\ UNCHANGED <<selectedElement, statusElement, statusText, top, left,
                   propScale, propRotation, dragging, engineVars,
                   documentVars, touches, pressed>>

\* ------------------------------------------------------------ mouse
\* Mutant: onpointerdown without `selectedElement = element`.
PointerDownNoSelect(el, p) ==
    /\ Deliver("pointerdown", el, 0, 0)
    /\ handlePointerDown(el, p)
    /\ UNCHANGED <<selectedElement, statusElement, statusText, transform,
                   propScale, propRotation, initialScale, initialRotation,
                   touchStartDistance, touchStartAngle, touches>>

\* element.onpointerdown
PointerDown(el, p) ==
    /\ Deliver("pointerdown", el, 0, 0)
    /\ selectedElement' = el
    /\ handlePointerDown(el, p)
    /\ UNCHANGED <<statusElement, statusText, transform, propScale,
                   propRotation, initialScale, initialRotation,
                   touchStartDistance, touchStartAngle, touches>>

\* document.onpointermove, while a handler is registered.
PointerMove(p) ==
    /\ onpointermove # NoElement
    /\ Deliver("pointermove", onpointermove, 0, 0)
    /\ handlePointerMove(onpointermove, p)
    /\ UNCHANGED <<selectedElement, statusElement, transform, propScale,
                   propRotation, dragging, initialScale, initialRotation,
                   scale, rotation, touchStartDistance, touchStartAngle,
                   documentVars, touches, pressed>>

\* document.onpointerup, while a handler is registered.
PointerUp ==
    /\ onpointerup # NoElement
    /\ Deliver("pointerup", onpointerup, 0, 0)
    /\ handlePointerUp(onpointerup)
    /\ UNCHANGED <<selectedElement, statusElement, top, left, transform,
                   propScale, propRotation, engineVars, touches,
                   pressed>>

\* Mutant: the wheel step doubled to 0.1.
WheelScaleStep10(s, deltaY) == Clamp(Add(s, IF deltaY > 0 THEN -10 ELSE 10))

\* Line 210-211: the scale after a wheel event.
WheelScale(s, deltaY) == Clamp(Add(s, IF deltaY > 0 THEN -5 ELSE 5))

\* Whether the wheel handler registered on the document is the target's and
\* so acts on it (line 206; no handler runs while document.onwheel is null).
WheelActs(target) == onwheel # NoElement /\ onwheel = target

\* A wheel event whose target is the element `target`: document.onwheel.
Wheel(target, deltaY) ==
    /\ Deliver("wheel", target, deltaY, scale[target])
    /\ IF WheelActs(target)
       THEN /\ scale' = [scale EXCEPT ![target] = WheelScale(@, deltaY)]
            /\ updateTransform(target, scale'[target], rotation[target])
       ELSE UNCHANGED <<scale, transform, propScale, propRotation>>
    /\ UNCHANGED <<selectedElement, statusElement, statusText, top, left,
                   dragging, currentX, currentY, initialScale,
                   initialRotation, rotation, touchStartDistance,
                   touchStartAngle, documentVars, touches, pressed>>

\* Mutant: 30 degrees per click.
RightClickRotationStep30(r) == JsMod(r + 30, 360)

\* Line 222: the rotation after a right-click.
RightClickRotation(r) == JsMod(r + 15, 360)

\* Whether the context-menu handler registered on the document is the
\* target's (line 218).
RightClickActs(target) == oncontextmenu # NoElement /\ oncontextmenu = target

\* A contextmenu event whose target is `target`: document.oncontextmenu.
RightClick(target) ==
    /\ Deliver("contextmenu", target, 0, rotation[target])
    /\ IF RightClickActs(target)
       THEN /\ rotation' = [rotation EXCEPT ![target] = RightClickRotation(@)]
            /\ updateTransform(target, scale[target], rotation'[target])
       ELSE UNCHANGED <<rotation, transform, propScale, propRotation>>
    /\ UNCHANGED <<selectedElement, statusElement, statusText, top, left,
                   dragging, currentX, currentY, initialScale,
                   initialRotation, scale, touchStartDistance,
                   touchStartAngle, documentVars, touches, pressed>>

\* ------------------------------------------------------------ touch
\* e.touches.length: the number of fingers on the screen.
TouchCount(t) == Cardinality({f \in Fingers : t[f] # NoElement})

\* Line 130-131: the scale of a two-touch move.
PinchScale(initial, currentDistance, startDistance) ==
    Clamp(TimesRatio(initial, currentDistance, startDistance))

\* Line 134-135: the rotation of a two-touch move.
PinchRotation(initial, currentAngle, startAngle) ==
    JsMod(initial + (currentAngle - startAngle) + 360, 360)

\* The element's touchstart listener: finger f comes down on el.  p is
\* e.touches[0] of a one-touch event, pair is e.touches of a two-touch one.
TouchStart(f, el, p, pair) ==
    /\ touches[f] = NoElement
    /\ touches' = [touches EXCEPT ![f] = el]
    /\ Deliver("touchstart", el, 0, 0)
    /\ CASE TouchCount(touches') = 1 ->
              /\ selectedElement' = el
              /\ handlePointerDown(el, p)
              /\ UNCHANGED <<initialScale, initialRotation,
                             touchStartDistance, touchStartAngle>>
         [] TouchCount(touches') = 2 ->
              /\ selectedElement' = el
              /\ touchStartDistance' =
                   [touchStartDistance EXCEPT ![el] = getDistance(pair[1], pair[2])]
              /\ touchStartAngle' =
                   [touchStartAngle EXCEPT ![el] = getAngle(pair[1], pair[2])]
              /\ initialScale' = [initialScale EXCEPT ![el] = scale[el]]
              /\ initialRotation' = [initialRotation EXCEPT ![el] = rotation[el]]
              /\ UNCHANGED <<top, left, dragging, currentX, currentY, scale,
                             rotation, documentVars, pressed>>
         [] OTHER ->
              UNCHANGED <<selectedElement, top, left, dragging, engineVars,
                          documentVars, pressed>>
    /\ UNCHANGED <<statusElement, statusText, transform, propScale,
                   propRotation>>

\* The element's touchmove listener: finger f, which is on an element, moves.
TouchMove(f, p, pair) ==
    LET el == touches[f] IN
    /\ el # NoElement
    /\ Deliver("touchmove", el, 0, 0)
    /\ CASE TouchCount(touches) = 1 ->
              /\ handlePointerMove(el, p)
              /\ UNCHANGED <<transform, propScale, propRotation, scale,
                             rotation>>
         [] TouchCount(touches) = 2 ->
              LET currentDistance == getDistance(pair[1], pair[2])
                  currentAngle == getAngle(pair[1], pair[2])
              IN  /\ RatioExact(initialScale[el], currentDistance,
                                touchStartDistance[el])
                  /\ scale' = [scale EXCEPT ![el] =
                        PinchScale(initialScale[el], currentDistance,
                                   touchStartDistance[el])]
                  /\ rotation' = [rotation EXCEPT ![el] =
                        PinchRotation(initialRotation[el], currentAngle,
                                      touchStartAngle[el])]
                  /\ updateTransform(el, scale'[el], rotation'[el])
                  /\ UNCHANGED <<statusText, top, left, currentX, currentY>>
         [] OTHER ->
              UNCHANGED <<statusText, top, left, transform, propScale,
                          propRotation, currentX, currentY, scale, rotation>>
    /\ UNCHANGED <<selectedElement, statusElement, dragging, initialScale,
                   initialRotation, touchStartDistance, touchStartAngle,
                   documentVars, touches, pressed>>

\* The element's touchend listener: finger f leaves the element it is on.
TouchEnd(f) ==
    LET el == touches[f] IN
    /\ el # NoElement
    /\ touches' = [touches EXCEPT ![f] = NoElement]
    /\ Deliver("touchend", el, 0, 0)
    /\ IF TouchCount(touches') < 2
       THEN /\ touchStartDistance' = [touchStartDistance EXCEPT ![el] = 0]
            /\ touchStartAngle' = [touchStartAngle EXCEPT ![el] = 0]
       ELSE UNCHANGED <<touchStartDistance, touchStartAngle>>
    /\ IF TouchCount(touches') = 0
       THEN handlePointerUp(el)
       ELSE UNCHANGED <<statusText, dragging, documentVars>>
    /\ UNCHANGED <<selectedElement, statusElement, top, left, transform,
                   propScale, propRotation, currentX, currentY, initialScale,
                   initialRotation, scale, rotation, pressed>>

\* ------------------------------------------------------------ Spec
\* A new touch gets the lowest identifier that is not in use.
NewTouch(f) == \A g \in Fingers : g < f => touches[g] # NoElement

\* The touchstart of a new touch.
NewTouchStart(f, el, p, pair) == NewTouch(f) /\ TouchStart(f, el, p, pair)

Next ==
    \/ \E key \in Keys : KeyDown(key)
    \/ \E el \in Elements, p \in Points : PointerDown(el, p)
    \/ \E p \in Points : PointerMove(p)
    \/ PointerUp
    \/ \E target \in Elements, deltaY \in DeltaYs : Wheel(target, deltaY)
    \/ \E target \in Elements : RightClick(target)
    \/ \E f \in Fingers, el \in Elements, p \in Points, pair \in TouchPairs :
          NewTouchStart(f, el, p, pair)
    \/ \E f \in Fingers, p \in Points, pair \in TouchPairs : TouchMove(f, p, pair)
    \/ \E f \in Fingers : TouchEnd(f)

Spec == Init /\ [][Next]_vars

SpecLong == InitLong /\ [][Next]_vars

\* ------------------------------------------------------------ claims
ScaleInRange(s) == s # NaN /\ 30 <= s /\ s <= 300

RotationInRange(r) == 0 <= r /\ r < 360

\* C1: every scale an element's engine holds (scale, initialScale) or has
\* written into its transform or --scale is within [0.3, 3.0].
C1_ScaleInRange ==
    \A el \in Elements :
        /\ ScaleInRange(scale[el])
        /\ ScaleInRange(initialScale[el])
        /\ \A i \in 1..Len(transform[el].scale) :
              ScaleInRange(transform[el].scale[i])
        /\ \A i \in 1..Len(propScale[el]) : ScaleInRange(propScale[el][i])

\* C2: every rotation an element's engine holds (rotation, initialRotation)
\* or has written into its transform or --rotation is in [0, 360).
C2_RotationInRange ==
    \A el \in Elements :
        /\ RotationInRange(rotation[el])
        /\ RotationInRange(initialRotation[el])
        /\ \A i \in 1..Len(transform[el].rotate) :
              RotationInRange(transform[el].rotate[i])
        /\ \A i \in 1..Len(propRotation[el]) :
              RotationInRange(propRotation[el][i])

\* C2 witness: a twist through a negative angle difference has wrapped the
\* rotation below 0 round to 270, and the transform carries it.
C2_Witness ==
    \E el \in Elements :
        /\ touchStartAngle[el] = 90
        /\ initialRotation[el] = 0
        /\ rotation[el] = 270
        /\ transform[el].rotate = <<270>>

\* C3: a transform that has been written carries the translate(-50%,-50%)
\* component, and so does the transform of an element centred at
\* initialization, always.
C3_TranslatePresent ==
    \A el \in Elements :
        transform[el] = EmptyTransform \/ transform[el].translate

\* A move event processed by el's handlePointerMove with coordinates p: the
\* document's pointermove while el's handler is registered, or a one-touch
\* touchmove of a finger on el.
MoveStep(el, p) ==
    \/ onpointermove = el /\ PointerMove(p)
    \/ \E f \in Fingers, pair \in TouchPairs :
          /\ touches[f] = el
          /\ TouchCount(touches) = 1
          /\ TouchMove(f, p, pair)

\* A press on el: its pointerdown, or a one-touch touchstart on it.
PressStep(el) ==
    \E p \in Points :
        \/ PointerDown(el, p)
        \/ \E f \in Fingers, pair \in TouchPairs :
              TouchCount(touches) = 0 /\ TouchStart(f, el, p, pair)

\* A release handled by el's handlePointerUp: the document's pointerup while
\* el's handler is registered, or the touchend of the last finger, on el.
ReleaseStep(el) ==
    \/ onpointerup = el /\ PointerUp
    \/ \E f \in Fingers :
          touches[f] = el /\ TouchCount(touches) = 1 /\ TouchEnd(f)

\* C4 (as claimed): a move from (px,py) to (cx,cy) during an active drag
\* increases left by px - cx and decreases top by cy - py.
C4_InvertedDelta ==
    [][\A el \in Elements, p \in Points :
          (dragging[el] /\ MoveStep(el, p)) =>
             /\ ParseFloatOr0(left'[el]) =
                   ParseFloatOr0(left[el]) + (currentX[el] - p[1])
             /\ ParseFloatOr0(top'[el]) =
                   ParseFloatOr0(top[el]) - (p[2] - currentY[el])]_vars

\* C4 (amended): a move from (px,py) to (cx,cy) during an active drag sets
\* left to its number plus cx - px and top to its number plus cy - py, in
\* pixels: the element follows the pointer; from (100,100) to (80,130) left
\* decreases by 20 and top increases by 30.
C4_FollowsPointer ==
    [][\A el \in Elements, p \in Points :
          (dragging[el] /\ MoveStep(el, p)) =>
             /\ left'[el] = Px(ParseFloatOr0(left[el]) + (p[1] - currentX[el]))
             /\ top'[el] = Px(ParseFloatOr0(top[el]) + (p[2] - currentY[el]))
             /\ (currentX[el] = 100 /\ currentY[el] = 100 /\ p = <<80, 130>>) =>
                   /\ left'[el].n = ParseFloatOr0(left[el]) - 20
                   /\ top'[el].n = ParseFloatOr0(top[el]) + 30]_vars

\* C4 witness: an element pressed at (100,100) and moved to (80,130), 20 to
\* the left of and 30 below where it was.
C4_Witness ==
    \E el \in Elements :
        /\ dragging[el]
        /\ pressed.el = el /\ pressed.x = 100 /\ pressed.y = 100
        /\ currentX[el] = 80 /\ currentY[el] = 130
        /\ left[el] = Px(ParseFloatOr0(pressed.left) - 20)
        /\ top[el] = Px(ParseFloatOr0(pressed.top) + 30)

\* C5: a press, moves that end at the press coordinates, and a release leave
\* the element's top and left (value and unit) as they were before the press.
C5_DragRoundTrip ==
    [][\A el \in Elements :
          ( /\ ReleaseStep(el)
            /\ dragging[el]
            /\ pressed.el = el
            /\ currentX[el] = pressed.x
            /\ currentY[el] = pressed.y ) =>
             /\ top'[el] = pressed.top
             /\ left'[el] = pressed.left]_vars

\* C6: top and left of an element change only at a move event processed while
\* the element has an active drag (or at the press that initialises them from
\* the rendered offset); any other step leaves them unchanged.
C6_PositionOnlyInDrag ==
    [][\A el \in Elements :
          (top'[el] # top[el] \/ left'[el] # left[el]) =>
             \/ dragging[el] /\ \E p \in Points : MoveStep(el, p)
             \/ NeedsPositionInit(el) /\ PressStep(el)]_vars

\* C7 (as claimed): every context-menu event changes its target's rotation to
\* (rotation + 15) mod 360, the target being the only precondition.
C7_RightClickAlways ==
    [][\A target \in Elements :
          RightClick(target) =>
             rotation'[target] = (rotation[target] + 15) % 360]_vars

\* C7 (amended): a context-menu event changes its target's rotation to
\* (rotation + 15) mod 360, and writes it into the transform, when the
\* target's handler is the one registered on the document, and changes
\* neither otherwise; six such events in a row from rotation 0 give 90.
C7_RightClickWhileRegistered ==
    /\ [][\A target \in Elements :
            RightClick(target) =>
               IF oncontextmenu = target
               THEN /\ rotation'[target] = (rotation[target] + 15) % 360
                    /\ transform'[target] =
                         ComposedTransform(scale[target], rotation'[target])
               ELSE /\ rotation'[target] = rotation[target]
                    /\ transform'[target] = transform[target]]_vars
    /\ [](\A el \in Elements :
            ( /\ last.ev = "contextmenu" /\ last.el = el
              /\ oncontextmenu = el
              /\ last.base = 0 /\ last.n = 6 ) => rotation[el] = 90)

\* C7 witness: six right-clicks in a row on the element whose handler is
\* registered, from rotation 0, have been delivered.
C7_Witness ==
    \E el \in Elements :
        /\ last.ev = "contextmenu" /\ last.el = el
        /\ oncontextmenu = el
        /\ last.base = 0 /\ last.n = 6
        /\ transform[el].rotate = <<90>>

\* The scale s moved by d hundredths and clamped to [0.3, 3.0]; a scale that
\* is not a number stays so.
Stepped(s, d) ==
    IF s = NaN THEN NaN
    ELSE IF s + d < 30 THEN 30
    ELSE IF s + d > 300 THEN 300
    ELSE s + d

\* C8 (as claimed): every wheel event changes its target's scale by +0.05 if
\* deltaY < 0 and by -0.05 otherwise, clamped to [0.3, 3.0].
C8_WheelAlways ==
    [][\A target \in Elements, deltaY \in DeltaYs :
          Wheel(target, deltaY) =>
             /\ scale'[target] =
                   Stepped(scale[target], IF deltaY < 0 THEN 5 ELSE -5)
             /\ ScaleInRange(scale'[target])]_vars

\* C8 (amended): a wheel event changes its target's scale when the target's
\* handler is the one registered on the document, by -0.05 if deltaY > 0 and
\* by +0.05 for every other deltaY (0 included), clamped to [0.3, 3.0] (a
\* scale that is not a number stays so), and writes it into the transform;
\* otherwise it changes neither; seven scroll-up events in a row from scale
\* 1.0 give 1.35.
C8_WheelWhileRegistered ==
    /\ [][\A target \in Elements, deltaY \in DeltaYs :
            Wheel(target, deltaY) =>
               IF onwheel = target
               THEN /\ scale'[target] =
                         Stepped(scale[target], IF deltaY > 0 THEN -5 ELSE 5)
                    /\ transform'[target] =
                         ComposedTransform(scale'[target], rotation[target])
               ELSE /\ scale'[target] = scale[target]
                    /\ transform'[target] = transform[target]]_vars
    /\ [](\A el \in Elements :
            ( /\ last.ev = "wheel" /\ last.el = el /\ last.arg < 0
              /\ onwheel = el
              /\ last.base = 100 /\ last.n = 7 ) => scale[el] = 135)

\* C8 witness: seven scroll-up events in a row on the element whose handler
\* is registered, from scale 1.0, have been delivered.
C8_Witness ==
    \E el \in Elements :
        /\ last.ev = "wheel" /\ last.el = el /\ last.arg < 0
        /\ onwheel = el
        /\ last.base = 100 /\ last.n = 7
        /\ transform[el].scale = <<135>>

\* C9: the scale and rotation the engine tracks equal the ones readable from
\* the transform (an absent component reads as scale 1, rotation 0).
C9_EngineAgreesWithTransform ==
    \A el \in Elements :
        /\ scale[el] = ParsedScale(transform[el])
        /\ rotation[el] = ParsedRotation(transform[el])

\* C10: a key-down changes nothing when no element is selected; it leaves
\* top, left, scale, rotation and transform of every element other than the
\* selected one unchanged; and a key that is not an arrow leaves those of the
\* selected element unchanged too.
ElementState(el) ==
    <<top[el], left[el], scale[el], rotation[el], transform[el]>>

C10_KeyDownFrame ==
    [][\A key \in Keys :
          KeyDown(key) =>
             /\ selectedElement' = selectedElement
             /\ \A el \in Elements :
                   ( \/ el # selectedElement
                     \/ key \notin {"ArrowUp", "ArrowDown", "ArrowLeft",
                                    "ArrowRight"} ) =>
                      ElementState(el)' = ElementState(el)]_vars

\* C10 witness: an arrow key has rewritten the selected element's transform
\* while the other element, pressed before it, is as the key-down found it.
C10_Witness ==
    \E el \in Elements, other \in Elements :
        /\ other # el
        /\ selectedElement = el
        /\ dragging[other]
        /\ transform[el] = KeyTransform(110, 0)
        /\ transform[other] = CentreTransform

\* C11: on the selected element, with scale s and rotation r read back from
\* its transform (1 and 0 for a component that is absent or not a number),
\* Arrow Up writes scale min(3.0, s + 0.1), Arrow Down max(0.3, s - 0.1),
\* Arrow Left rotation (r - 15 + 360) mod 360, Arrow Right (r + 15) mod 360,
\* and the component the key does not address is written as it was read.
ReadBackScale(t) ==
    IF t.scale = <<>> \/ t.scale = <<NaN>> THEN 100 ELSE t.scale[1]

ReadBackRotation(t) == IF t.rotate = <<>> THEN 0 ELSE t.rotate[1]

C11_ArrowKeys ==
    [][\A key \in {"ArrowUp", "ArrowDown", "ArrowLeft", "ArrowRight"} :
          (KeyDown(key) /\ selectedElement # NoElement) =>
             LET s == ReadBackScale(transform[selectedElement])
                 r == ReadBackRotation(transform[selectedElement])
                 t == transform'[selectedElement]
             IN  /\ key = "ArrowUp" =>
                       /\ t.scale = <<IF s + 10 > 300 THEN 300 ELSE s + 10>>
                       /\ t.rotate = <<r>>
                 /\ key = "ArrowDown" =>
                       /\ t.scale = <<IF s - 10 < 30 THEN 30 ELSE s - 10>>
                       /\ t.rotate = <<r>>
                 /\ key = "ArrowLeft" =>
                       /\ t.rotate = <<(r - 15 + 360) % 360>>
                       /\ t.scale = <<s>>
                 /\ key = "ArrowRight" =>
                       /\ t.rotate = <<(r + 15) % 360>>
                       /\ t.scale = <<s>>]_vars

\* C11 witness: Arrow Down has taken the scale 1.05 that a wheel event wrote
\* down to 0.95 and written the rotation 0 as it read it.
C11_Witness ==
    \E el \in Elements :
        /\ selectedElement = el
        /\ ~transform[el].translate
        /\ transform[el].scale = <<95>>
        /\ transform[el].rotate = <<0>>
        /\ scale[el] = 105

\* A touchstart dispatched to el, and the number of touches it reports.
TouchStartStep(el, n) ==
    /\ TouchCount(touches) = n - 1
    /\ \E f \in Fingers :
          /\ touches' = [touches EXCEPT ![f] = el]
          /\ \E p \in Points, pair \in TouchPairs : TouchStart(f, el, p, pair)

PointerDownStep(el) == \E p \in Points : PointerDown(el, p)

\* C12 (as claimed): every pointer-down and every touch-start, with any number
\* of touches, makes its element the selection; no other event changes the
\* selection; a selection never returns to none.
C12_EveryStartSelects ==
    [][/\ \A el \in Elements :
             (PointerDownStep(el) \/ \E n \in 1..Cardinality(Fingers) :
                                        TouchStartStep(el, n))
                => selectedElement' = el
       /\ selectedElement' # selectedElement =>
             \E el \in Elements :
                PointerDownStep(el) \/ \E n \in 1..Cardinality(Fingers) :
                                          TouchStartStep(el, n)
       /\ selectedElement # NoElement => selectedElement' # NoElement]_vars

\* C12 (amended): every pointer-down and every touch-start with one or two
\* touches makes its element the selection; a touch-start with three or more
\* touches and every other event leave the selection as it is; a selection
\* never returns to none.
C12_OneOrTwoTouchStartSelects ==
    [][/\ \A el \in Elements :
             selectedElement' # el =>
                ~(PointerDownStep(el) \/ TouchStartStep(el, 1)
                     \/ TouchStartStep(el, 2))
       /\ selectedElement' # selectedElement =>
             \E el \in Elements :
                /\ selectedElement' = el
                /\ \/ PointerDownStep(el)
                   \/ TouchStartStep(el, 1)
                   \/ TouchStartStep(el, 2)
       /\ selectedElement # NoElement => selectedElement' # NoElement]_vars

\* C12 witness: a third touch has come down on an element that is not the
\* selection, and the selection is still the element of the earlier starts.
C12_Witness ==
    /\ TouchCount(touches) = 3
    /\ selectedElement # NoElement
    /\ touches[3] # selectedElement
    /\ touches[2] = selectedElement

\* C13: a press on the element that is already the selection leaves the
\* selection and that element's top, left, scale and rotation as they were.
C13_PressOnSelectedIdempotent ==
    [][\A el \in Elements :
          (selectedElement = el /\ PressStep(el)) =>
             /\ selectedElement' = el
             /\ top'[el] = top[el]
             /\ left'[el] = left[el]
             /\ scale'[el] = scale[el]
             /\ rotation'[el] = rotation[el]]_vars

\* A two-touch touchmove dispatched to el with e.touches = pair.
TwoTouchMoveStep(el, pair) ==
    \E f \in Fingers, p \in Points :
        touches[f] = el /\ TouchCount(touches) = 2 /\ TouchMove(f, p, pair)

\* A two-touch touchstart dispatched to el with e.touches = pair.
TwoTouchStartStep(el, pair) ==
    \E f \in Fingers, p \in Points :
        TouchCount(touches) = 1 /\ TouchStart(f, el, p, pair)

\* The clamp of a number of hundredths to [0.3, 3.0].
ClampTo(x) == IF x < 30 THEN 30 ELSE IF x > 300 THEN 300 ELSE x

\* C14: a two-touch start takes the element's scale and rotation as the
\* baseline and the distance and angle of its touches as the start values; a
\* two-touch move sets scale to baseline * currentDistance / startDistance
\* clamped to [0.3, 3.0] and rotation to (baseline + currentAngle -
\* startAngle + 360) mod 360; so ratio 1 and angle difference 0 give the
\* baseline back, and 100 -> 50 from baseline 1.0 gives 0.5.
C14_PinchAndTwist ==
    [][\A el \in Elements, pair \in TouchPairs :
          /\ TwoTouchStartStep(el, pair) =>
                /\ initialScale'[el] = scale[el]
                /\ initialRotation'[el] = rotation[el]
                /\ touchStartDistance'[el] = getDistance(pair[1], pair[2])
                /\ touchStartAngle'[el] = getAngle(pair[1], pair[2])
          /\ TwoTouchMoveStep(el, pair) =>
                LET cur == getDistance(pair[1], pair[2])
                    start == touchStartDistance[el]
                    diff == getAngle(pair[1], pair[2]) - touchStartAngle[el]
                IN  /\ ScaleInRange(scale'[el])
                    /\ start # 0 =>
                          scale'[el] =
                             ClampTo((initialScale[el] * cur) \div start)
                    /\ rotation'[el] = (initialRotation[el] + diff + 360) % 360
                    /\ (cur = start /\ diff = 0) =>
                          /\ scale'[el] = initialScale[el]
                          /\ rotation'[el] = initialRotation[el]
                    /\ (start = 100 /\ cur = 50 /\ initialScale[el] = 100) =>
                          scale'[el] = 50]_vars

\* C15: after a release no element carries the dragging marker, the status
\* text is the idle prompt and the four document listeners are unregistered.
C15_ReleaseEndsDrag ==
    [][\A el \in Elements :
          ReleaseStep(el) =>
             /\ \A e \in Elements : ~dragging'[e]
             /\ statusText' = IdleStatus
             /\ onpointermove' = NoElement
             /\ onpointerup' = NoElement
             /\ onwheel' = NoElement
             /\ oncontextmenu' = NoElement]_vars

\* C16: with the status region present, a move during a drag of an element
\* leaves the status 'Dragging <id> | X:<x>, Y:<y>' with the coordinates of
\* the move, and the status is the idle prompt in every state in which no
\* element carries the dragging marker.
C16_StatusFollowsDrag ==
    /\ [][\A el \in Elements, p \in Points :
            (statusElement /\ dragging[el] /\ MoveStep(el, p)) =>
               statusText' = DraggingStatus(el, p[1], p[2])]_vars
    /\ []((statusElement /\ \A el \in Elements : ~dragging[el]) =>
             statusText = IdleStatus)

\* C17: the four document listeners are all unregistered or all bound to one
\* element, the one whose press was the most recent; a press on an element
\* binds all four to it, whichever element held them before.
C17_SingleListenerOwner ==
    /\ [](/\ onpointermove = onpointerup
          /\ onpointerup = onwheel
          /\ onwheel = oncontextmenu
          /\ onpointermove # NoElement => onpointermove = pressed.el)
    /\ [][\A el \in Elements :
            PressStep(el) =>
               /\ onpointermove' = el
               /\ onpointerup' = el
               /\ onwheel' = el
               /\ oncontextmenu' = el]_vars

\* The listeners were transferred: el owns them after a press on it while the
\* other element, pressed before and not released, still carries its marker.
C17_Witness ==
    \E el \in Elements, other \in Elements :
        /\ el # other
        /\ dragging[other]
        /\ pressed.el = el
        /\ onpointermove = el
        /\ onpointerup = el
        /\ onwheel = el
        /\ oncontextmenu = el

\* C18: at most one element carries the dragging marker, and an element
\* carries it exactly when it owns the document listeners.
C18_OneDragOwner ==
    /\ Cardinality({el \in Elements : dragging[el]}) <= 1
    /\ \A el \in Elements :
          dragging[el] <=> /\ onpointermove = el
                           /\ onpointerup = el
                           /\ onwheel = el
                           /\ oncontextmenu = el

\* C19: the pinch computation of a two-touch move on an element never runs
\* with that element's gesture-start distance equal to 0.
C19_PinchOnlyInSession ==
    [][\A el \in Elements, pair \in TouchPairs :
          TwoTouchMoveStep(el, pair) => touchStartDistance[el] # 0]_vars

\* C20: a re-parse of scale and rotation from the transform uses 1 for a scale
\* component and 0 for a rotation component that is absent or not a number,
\* at a press (the engine's values after it are the values read back) and in
\* the keyboard handler (the values it writes are stepped from the values
\* read back), whatever the engine tracked before.
C20_ReparseDefaults ==
    [][\A el \in Elements :
          /\ PressStep(el) =>
                /\ scale'[el] = ReadBackScale(transform[el])
                /\ rotation'[el] = ReadBackRotation(transform[el])
          /\ (selectedElement = el /\ KeyDown("ArrowLeft")) =>
                transform'[el].scale = <<ReadBackScale(transform[el])>>
          /\ (selectedElement = el /\ KeyDown("ArrowUp")) =>
                transform'[el].rotate = <<ReadBackRotation(transform[el])>>]_vars

====
